---- MODULE Spec2Model ----
(***************************************************************************)
(* A model of pons.NetSim (src/pons/simulation.py): setup(), run(), the    *)
(* tasks they register with the simpy environment, the time-advance loop   *)
(* and the derivation of the routing report.                               *)
(*                                                                         *)
(* Time is counted in ticks; one simulated second is TicksPerSecond ticks, *)
(* so that contact-plan boundaries may fall between whole seconds (the     *)
(* simpy clock is a float).  Durations, logger intervals and the slice of  *)
(* the run loop are whole seconds, as in the source.                       *)
(*                                                                         *)
(* Not modelled: the movement manager (movements is taken to be empty),    *)
(* the per-node processes started by Node.start, the event filter (taken   *)
(* to be empty), the wall-clock progress report of the run loop, and the   *)
(* event simpy schedules when a process ends (no task waits for another).  *)
(* msggens = None is the empty list: setup() skips both alike.             *)
(*                                                                         *)
(* The code of pons.event_log, of the contact plan, of the message         *)
(* generators, of the routers and of the network interfaces is not part of *)
(* the sources at hand; those operators follow the specification.          *)
(*                                                                         *)
(* Four specifications share the variables.  Spec is the engine above,     *)
(* and AgainSpec is Spec with run() called once more after it completed.   *)
(* AnimSpec is the log reader of the visualizer (src/tools/ponsanim),      *)
(* which replays LINK and CONFIG records of an event log into its contact  *)
(* list.  RoutersSpec is the bundle stores of the routers: creation,       *)
(* forwarding, receipt and eviction with their counters.  Each of them     *)
(* leaves the variables of the other parts as they are.                    *)
(***************************************************************************)
EXTENDS Integers, Sequences, FiniteSets

(* ------------------------------ bounds -------------------------------- *)
MaxDuration == 2
TicksPerSecond == 2
MaxGens == 2
NumNodes == 3

(* ------------------------- program constants -------------------------- *)
\* now_sim + 5.0 : the slice of the run loop, in seconds
SLICE == 5
\* interval=1.0 : the period of the movement and peers loggers, in seconds
LOGGER_INTERVAL == 1
\* simpy event priorities: the until-event of env.run is URGENT, a timeout NORMAL
URGENT == 0
NORMAL == 1
\* the tid of the until-event of env.run (it belongs to no task)
STOP == 0
\* Python's None, where a time is expected
NONE == -1
\* net.contactplan of an interface without a contact plan (None)
NOPLAN == 0
\* the number of nodes of the example scenario of three nodes
NUM_NODES == 3
\* the capacity of the routers' stores in the example scenario
CAPACITY == 10000

Nodes == 1..NumNodes

\* the nodes of the example scenario, which carry the routers
Routers == 1..NUM_NODES

Sec(s) == s * TicksPerSecond

Min(a, b) == IF a <= b THEN a ELSE b

(* --------------------------- the scenario ----------------------------- *)
\* msggen["type"]: "absent" is a config without the key, "None" the value None
GenTypes == {"absent", "None", "single", "burst", "bogus"}

RECURSIVE SeqsUpTo(_, _)
SeqsUpTo(S, n) ==
    IF n = 0 THEN {<<>>}
    ELSE LET shorter == SeqsUpTo(S, n - 1)
         IN  shorter \cup {Append(s, x) : s \in {t \in shorter : Len(t) = n - 1}, x \in S}

\* what the routers may do with a bundle a generator has just created
Outcomes == {"pending", "relayed", "delivered"}

VARIABLES
    duration,       \* self.duration, seconds
    slice,          \* the slice of the run loop, seconds (5.0 in the source)
    config,         \* self.config: movement_logger, peers_logger, event_logging
    msggens,        \* self.msggens
    plans,          \* the contact plans of the scenario, each sorted by start
    netplan,        \* net.contactplan of each node's interface: a plan or None
    cporder,        \* the order in which the set all_contactplans yields the plans
    router,         \* the outcomes the scenario's routers can produce
    pc,             \* where the driver script is
    now,            \* env.now, ticks
    queue,          \* env._queue
    eid,            \* env._eid
    procs,          \* the processes registered with env, in registration order
    logstate,       \* the event log: "closed", "open", "shut"
    log,            \* the records appended to the event log
    routing_stats,  \* self.routing_stats
    neighbors,      \* each node's neighbor set
    nbcalls,        \* the calls of calc_neighbors / add_all_neighbors
    trace,          \* the task resumptions executed so far
    vpos,           \* ponsanim: the records of the event log read so far
    graph,          \* ponsanim: the nodes of g
    contacts,       \* ponsanim: the contacts rebuilt from the LINK records
    vraised,        \* ponsanim: whether reading the log has raised
    stores,         \* routers: the bundle copies each node's store holds, oldest first
    known,          \* routers: the ids of the bundles each node has had
    bundles,        \* routers: the bundles created so far
    capacity        \* routers: the capacity of every router's store

scenario == <<duration, slice, config, msggens, plans, netplan, cporder, router>>
anim == <<vpos, graph, contacts, vraised>>
routers == <<stores, known, bundles, capacity>>
vars == <<duration, slice, config, msggens, plans, netplan, cporder, router, pc, now,
          queue, eid, procs, logstate, log, routing_stats, neighbors, nbcalls, trace,
          vpos, graph, contacts, vraised, stores, known, bundles, capacity>>

(* ---------------- the contact plan (pons.net.contactplan) ------------- *)
\* A contact is [nodes |-> <<a, b>>, start |-> s, end |-> e], s < e, in ticks.
Boundaries(plan) ==
    {plan[i].start : i \in DOMAIN plan} \cup {plan[i].end : i \in DOMAIN plan}

SetMin(S) == CHOOSE x \in S : \A y \in S : x <= y

\* the earliest start or end strictly after t, or None
next_event(plan, t) ==
    LET later == {b \in Boundaries(plan) : b > t}
    IN  IF later = {} THEN NONE ELSE SetMin(later)

\* the contacts active at t or starting or ending exactly at t, each once
at(plan, t) ==
    SelectSeq(plan, LAMBDA c : c.start <= t /\ t <= c.end)

\* the contacts of plan cp; None has none
ContactsOf(cp) == IF cp = NOPLAN THEN <<>> ELSE plans[cp]

\* the neighbors the plan of its interface gives every node at time t
PlanNeighbors(t) ==
    [n \in Nodes |->
        {m \in Nodes \ {n} :
            \E i \in DOMAIN ContactsOf(netplan[n]) :
                LET c == ContactsOf(netplan[n])[i]
                IN  /\ {c.nodes[1], c.nodes[2]} = {n, m}
                    /\ c.start <= t
                    /\ t < c.end}]

(* ------------------- the event log (pons.event_log) ------------------- *)
is_logging(s) == s.logstate = "open"

\* event_log(ts, cat, event): the record (ts, cat, event) is appended while
\* the log is open; event is the dict of the call, with its field names
event_log(s, ts, cat, event) ==
    IF is_logging(s)
    THEN [s EXCEPT !.log = Append(@, [ts |-> ts, cat |-> cat, event |-> event])]
    ELSE s

(* ------------------------ the simpy environment ----------------------- *)
\* The part of the program's state a task step reads and writes.
St ==
    [now |-> now, queue |-> queue, eid |-> eid, procs |-> procs,
     logstate |-> logstate, log |-> log, stats |-> routing_stats,
     neighbors |-> neighbors, nbcalls |-> nbcalls, trace |-> trace]

\* env.schedule(event, priority, delay): heappush (now + delay, priority, eid, event)
Schedule(s, prio, delay, tid) ==
    [s EXCEPT !.queue = @ \cup {[time |-> s.now + delay, prio |-> prio,
                                 eid |-> s.eid, tid |-> tid]},
              !.eid = @ + 1]

\* a heap that breaks ties of time and priority by the latest event
BeforeLifo(e, f) ==
    \/ e.time < f.time
    \/ e.time = f.time /\ e.prio < f.prio
    \/ e.time = f.time /\ e.prio = f.prio /\ e.eid > f.eid

\* the heap order of env._queue: (time, priority, eid)
Before(e, f) ==
    \/ e.time < f.time
    \/ e.time = f.time /\ e.prio < f.prio
    \/ e.time = f.time /\ e.prio = f.prio /\ e.eid < f.eid

\* heappop(env._queue)
Pop(q) == CHOOSE e \in q : \A f \in q \ {e} : Before(e, f)

\* env.process(generator): the process and its Initialize event (URGENT, now)
Process(s, kind, arg) ==
    LET tid == Len(s.procs) + 1
        p   == [kind |-> kind, arg |-> arg, pc |-> "start", total |-> 0, next_event |-> 0]
    IN  Schedule([s EXCEPT !.procs = Append(@, p)], URGENT, 0, tid)

\* yield env.timeout(delay) in task tid
Timeout(s, tid, delay) ==
    Schedule([s EXCEPT !.procs[tid].pc = "wait"], NORMAL, delay, tid)

\* the generator of task tid returns
Return(s, tid) == [s EXCEPT !.procs[tid].pc = "done"]

\* the resumption of task tid at s.now by event ev, as the run observes it
Record(s, ev) ==
    [s EXCEPT !.trace = Append(@, [tid |-> ev.tid, kind |-> s.procs[ev.tid].kind,
                                   first |-> (s.procs[ev.tid].pc = "start"),
                                   t |-> s.now, eid |-> ev.eid,
                                   fresh |-> (s.neighbors = PlanNeighbors(s.now))])]

(* ------------------------------ the tasks ----------------------------- *)
\* start_movement_logger: while True: yield timeout(interval); print
start_movement_logger(s, tid) == Timeout(s, tid, Sec(s.procs[tid].arg))

\* start_peers_logger: while True: yield timeout(interval); print
start_peers_logger(s, tid) == Timeout(s, tid, Sec(s.procs[tid].arg))

\* the statistics mutation points of a bundle creation and of what the
\* routers then do with the bundle
Emit(s, n, o) ==
    LET c == [s EXCEPT !.stats.created = @ + n]
    IN  CASE o = "relayed"   -> [c EXCEPT !.stats.relayed = @ + 1]
          [] o = "delivered" -> [c EXCEPT !.stats.relayed = @ + 2,
                                         !.stats.delivered = @ + 1,
                                         !.stats.hops = @ + 2,
                                         !.stats.latency = @ + 3]
          [] OTHER           -> c

\* a burst generator emits BurstSize bundles at one instant
BurstSize == 2

\* pons.message_event_generator: while True: yield timeout(interval); create
message_event_generator(s, tid, o) ==
    IF s.procs[tid].pc = "start"
    THEN Timeout(s, tid, Sec(s.procs[tid].arg))
    ELSE Timeout(Emit(s, 1, o), tid, Sec(s.procs[tid].arg))

\* pons.message_burst_generator: while True: yield timeout(interval); create a batch
message_burst_generator(s, tid, o) ==
    IF s.procs[tid].pc = "start"
    THEN Timeout(s, tid, Sec(s.procs[tid].arg))
    ELSE Timeout(Emit(s, BurstSize, o), tid, Sec(s.procs[tid].arg))

\* for e in events: log UP if e starts at total, DOWN if e ends at total
RECURSIVE LogLinks(_, _, _, _)
LogLinks(s, events, i, total) ==
    IF i > Len(events) THEN s
    ELSE LET e  == events[i]
             up == IF e.start = total
                   THEN event_log(s, total, "LINK", [event |-> "UP", nodes |-> e.nodes])
                   ELSE s
             dn == IF e.end = total
                   THEN event_log(up, total, "LINK", [event |-> "DOWN", nodes |-> e.nodes])
                   ELSE up
         IN  LogLinks(dn, events, i + 1, total)

\* a contact logger that waits for the boundary's absolute time
contact_logger_absolute(s, tid) ==
    LET contactplan == ContactsOf(s.procs[tid].arg)
    IN
    IF s.procs[tid].pc = "start"
    THEN IF ~is_logging(s) THEN Return(s, tid)
         ELSE IF s.procs[tid].arg = NOPLAN THEN Return(s, tid)
         ELSE LET first == next_event(contactplan, 0)
              IN  IF first = NONE THEN Return(s, tid)
                  ELSE Timeout([s EXCEPT !.procs[tid].total = 0,
                                         !.procs[tid].next_event = first], tid, first)
    ELSE LET total  == s.procs[tid].total + s.procs[tid].next_event
             logged == LogLinks(s, at(contactplan, total), 1, total)
             nxt    == next_event(contactplan, total)
         IN  IF nxt = NONE \/ nxt > Sec(duration)
             THEN Return([logged EXCEPT !.procs[tid].total = total], tid)
             ELSE Timeout([logged EXCEPT !.procs[tid].total = total,
                                         !.procs[tid].next_event = nxt],
                          tid, nxt)

\* contact_logger(contactplan)
contact_logger(s, tid) ==
    LET contactplan == ContactsOf(s.procs[tid].arg)
    IN
    IF s.procs[tid].pc = "start"
    THEN IF ~is_logging(s) THEN Return(s, tid)
         ELSE IF s.procs[tid].arg = NOPLAN THEN Return(s, tid)
         ELSE LET first == next_event(contactplan, 0)
              IN  IF first = NONE THEN Return(s, tid)
                  ELSE Timeout([s EXCEPT !.procs[tid].total = 0,
                                         !.procs[tid].next_event = first], tid, first)
    ELSE LET total  == s.procs[tid].total + s.procs[tid].next_event
             logged == LogLinks(s, at(contactplan, total), 1, total)
             nxt    == next_event(contactplan, total)
         IN  IF nxt = NONE \/ nxt > Sec(duration)
             THEN Return([logged EXCEPT !.procs[tid].total = total], tid)
             ELSE Timeout([logged EXCEPT !.procs[tid].total = total,
                                         !.procs[tid].next_event = nxt - total],
                          tid, nxt - total)

\* the task net.start(netsim) registers for an interface with a contact plan:
\* it awaits the next boundary of the plan and updates its node's neighbor set
net_interface(s, tid) ==
    LET n     == s.procs[tid].arg
        upd   == IF s.procs[tid].pc = "start" THEN s
                 ELSE [s EXCEPT !.neighbors[n] = PlanNeighbors(s.now)[n]]
        nxt   == next_event(ContactsOf(netplan[n]), s.now)
    IN  IF nxt = NONE THEN Return(upd, tid) ELSE Timeout(upd, tid, nxt - s.now)

\* Process._resume: run task ev.tid up to its next yield
Resume(s, ev, o) ==
    LET r    == Record(s, ev)
        kind == s.procs[ev.tid].kind
    IN  CASE kind = "movement_logger" -> start_movement_logger(r, ev.tid)
          [] kind = "peers_logger"    -> start_peers_logger(r, ev.tid)
          [] kind = "single"          -> message_event_generator(r, ev.tid, o)
          [] kind = "burst"           -> message_burst_generator(r, ev.tid, o)
          [] kind = "contact_logger"  -> contact_logger(r, ev.tid)
          [] kind = "net"             -> net_interface(r, ev.tid)

\* env.step(): pop the next event, advance the clock to it, run its callback
EnvStep(s, o) ==
    LET ev == Pop(s.queue)
        s1 == [s EXCEPT !.queue = @ \ {ev}, !.now = ev.time]
    IN  IF ev.tid = STOP THEN s1 ELSE Resume(s1, ev, o)

(* ------------------------------- setup() ------------------------------ *)
\* Node.calc_neighbors(now, nodes): the distance scan; every interface of
\* the scenarios has range 0, "in range of everyone"
calc_neighbors(s, n) ==
    [s EXCEPT !.neighbors[n] = Nodes \ {n},
              !.nbcalls = Append(@, [node |-> n, call |-> "calc_neighbors", t |-> s.now])]

\* Node.add_all_neighbors(now, nodes): seeded from the plan, no distance scan
add_all_neighbors(s, n) ==
    [s EXCEPT !.neighbors[n] = PlanNeighbors(s.now)[n],
              !.nbcalls = Append(@, [node |-> n, call |-> "add_all_neighbors", t |-> s.now])]

\* for n in self.nodes.values(): n.calc_neighbors(now, nodes)
RECURSIVE calc_all_neighbors(_, _)
calc_all_neighbors(s, n) ==
    IF n > NumNodes THEN s ELSE calc_all_neighbors(calc_neighbors(s, n), n + 1)

\* for n in self.nodes.values(): n.add_all_neighbors(now, nodes)
RECURSIVE add_all_nodes_neighbors(_, _)
add_all_nodes_neighbors(s, n) ==
    IF n > NumNodes THEN s ELSE add_all_nodes_neighbors(add_all_neighbors(s, n), n + 1)

\* a dispatch that forgets the type None
RECURSIVE StartGensNoNone(_, _)
StartGensNoNone(s, i) ==
    IF i > Len(msggens) THEN [st |-> s, raised |-> FALSE]
    ELSE IF msggens[i].type \in {"absent", "single"}
         THEN StartGensNoNone(Process(s, "single", msggens[i].interval), i + 1)
    ELSE IF msggens[i].type = "burst"
         THEN StartGensNoNone(Process(s, "burst", msggens[i].interval), i + 1)
    ELSE [st |-> s, raised |-> TRUE]

\* for msggen in self.msggens: dispatch on msggen["type"], raise on an unknown one
RECURSIVE StartGens(_, _)
StartGens(s, i) ==
    IF i > Len(msggens) THEN [st |-> s, raised |-> FALSE]
    ELSE IF msggens[i].type \in {"absent", "None", "single"}
         THEN StartGens(Process(s, "single", msggens[i].interval), i + 1)
    ELSE IF msggens[i].type = "burst"
         THEN StartGens(Process(s, "burst", msggens[i].interval), i + 1)
    ELSE [st |-> s, raised |-> TRUE]

\* open_log()
open_log(s) == [s EXCEPT !.logstate = "open"]

\* close_log()
close_log(s) == IF s.logstate = "open" THEN [s EXCEPT !.logstate = "shut"] ELSE s

setup(s) ==
    LET s1 == IF config.movement_logger
              THEN Process(s, "movement_logger", LOGGER_INTERVAL) ELSE s
        s2 == IF config.peers_logger
              THEN Process(s1, "peers_logger", LOGGER_INTERVAL) ELSE s1
        s3 == IF config.event_logging THEN open_log(s2) ELSE s2
        g  == StartGens(s3, 1)
    IN  IF g.raised THEN g
        ELSE [st |-> calc_all_neighbors(g.st, 1), raised |-> FALSE]

(* -------------------------------- run() ------------------------------- *)
\* the dict of the CONFIG record of node n: its id, its position, and the
\* capacity and the fill of its router's store
ConfigEvent(n) ==
    [event |-> "START", id |-> n, x |-> n, y |-> 0, capacity |-> CAPACITY, used |-> 0]

\* for n in nodes: log CONFIG, start the node's interface
StartNode(s, n) ==
    LET c == event_log(s, 0, "CONFIG", ConfigEvent(n))
    IN  IF netplan[n] # NOPLAN THEN Process(c, "net", n) ELSE c

RECURSIVE StartNodes(_, _)
StartNodes(s, n) ==
    IF n > NumNodes THEN s ELSE StartNodes(StartNode(s, n), n + 1)

\* all_contactplans: the distinct plans of the nodes' interfaces
all_contactplans == {netplan[n] : n \in Nodes} \ {NOPLAN}

\* a contact logger for every node whose interface has a plan
RECURSIVE StartLoggersPerNode(_, _)
StartLoggersPerNode(s, i) ==
    IF i > NumNodes THEN s
    ELSE IF netplan[i] = NOPLAN THEN StartLoggersPerNode(s, i + 1)
    ELSE StartLoggersPerNode(Process(s, "contact_logger", netplan[i]), i + 1)

\* for cp in all_contactplans: self.env.process(self.contact_logger(cp))
RECURSIVE StartLoggers(_, _)
StartLoggers(s, i) ==
    IF i > Len(cporder) THEN s
    ELSE StartLoggers(Process(s, "contact_logger", cporder[i]), i + 1)

\* a test that asks whether every node has a plan
using_contactplan_all == \A n \in Nodes : netplan[n] # NOPLAN

\* using_contactplan(): some interface of some node has a contact plan
using_contactplan == \E n \in Nodes : netplan[n] # NOPLAN

\* run() up to the time-advance loop
run_start(s) ==
    LET s1 == StartNodes(s, 1)
        s2 == StartLoggers(s1, 1)
    IN  IF ~using_contactplan
        THEN calc_all_neighbors(s2, 1)
        ELSE add_all_nodes_neighbors(s2, 1)

\* slices cut one second late, at duration + 2
next_stop_late(s) == Min(Sec(duration + 2), s.now + Sec(slice))

\* a slice of no length: the loop asks to run until the current clock
next_stop_stalled(s) == Min(Sec(duration + 1), s.now)

\* a slice that is not cut at duration + 1
next_stop_uncut(s) == s.now + Sec(slice)

\* next_stop = min(self.duration + 1.0, now_sim + 5.0)
next_stop(s) == Min(Sec(duration + 1), s.now + Sec(slice))

\* an until-event that queues behind the timeouts of its instant
StopPriorityNormal == NORMAL

\* the priority of the until-event of env.run(until=...)
StopPriority == URGENT

\* env.run(until=next_stop), up to its first step: schedule the until-event
run_until(s, until) == Schedule(s, StopPriority, until - s.now, STOP)

\* while self.env.now < self.duration + 1.0
loop_cond(s) == s.now < Sec(duration + 1)

\* 0.0, and a / b for b > 0, as exact fractions
Zero == <<0, 1>>
Div(a, b) == <<a, b>>

\* a derivation that averages the hops over the bundles created
derive_over_created(rs) ==
    LET d1 == IF rs.delivered > 0
              THEN [rs EXCEPT !.latency_avg = Div(rs.latency, rs.delivered),
                              !.hops_avg = Div(rs.hops, rs.created),
                              !.overhead_ratio = Div(rs.relayed - rs.delivered, rs.delivered)]
              ELSE rs
        d2 == IF d1.created > 0
              THEN [d1 EXCEPT !.delivery_prob = Div(d1.delivered, d1.created)]
              ELSE [d1 EXCEPT !.delivery_prob = Zero]
    IN  [k \in DOMAIN d2 \ {"hops", "latency"} |-> d2[k]]

\* a derivation that divides without looking at delivered
derive_unguarded(rs) ==
    LET d1 == [rs EXCEPT !.latency_avg = Div(rs.latency, rs.delivered),
                         !.hops_avg = Div(rs.hops, rs.delivered),
                         !.overhead_ratio = Div(rs.relayed - rs.delivered, rs.delivered)]
        d2 == IF d1.created > 0
              THEN [d1 EXCEPT !.delivery_prob = Div(d1.delivered, d1.created)]
              ELSE [d1 EXCEPT !.delivery_prob = Zero]
    IN  [k \in DOMAIN d2 \ {"hops", "latency"} |-> d2[k]]

\* a derivation that also drops relayed, which feeds only overhead_ratio
derive_drops_relayed(rs) ==
    LET d1 == IF rs.delivered > 0
              THEN [rs EXCEPT !.latency_avg = Div(rs.latency, rs.delivered),
                              !.hops_avg = Div(rs.hops, rs.delivered),
                              !.overhead_ratio = Div(rs.relayed - rs.delivered, rs.delivered)]
              ELSE rs
        d2 == IF d1.created > 0
              THEN [d1 EXCEPT !.delivery_prob = Div(d1.delivered, d1.created)]
              ELSE [d1 EXCEPT !.delivery_prob = Zero]
    IN  [k \in DOMAIN d2 \ {"hops", "latency", "relayed"} |-> d2[k]]

\* the derivation of the report when the loop has exited
derive(rs) ==
    LET d1 == IF rs.delivered > 0
              THEN [rs EXCEPT !.latency_avg = Div(rs.latency, rs.delivered),
                              !.hops_avg = Div(rs.hops, rs.delivered),
                              !.overhead_ratio = Div(rs.relayed - rs.delivered, rs.delivered)]
              ELSE rs
        d2 == IF d1.created > 0
              THEN [d1 EXCEPT !.delivery_prob = Div(d1.delivered, d1.created)]
              ELSE [d1 EXCEPT !.delivery_prob = Zero]
    IN  [k \in DOMAIN d2 \ {"hops", "latency"} |-> d2[k]]

\* an end of run() that returns without closing the log
run_end_unclosed(s) == [st |-> [s EXCEPT !.stats = derive(@)], raised |-> FALSE]

\* an end of run() that takes a missing raw sum for 0
run_end_lenient(s) ==
    LET rs   == s.stats
        full == [k \in DOMAIN rs \cup {"hops", "latency"} |->
                    IF k \in DOMAIN rs THEN rs[k] ELSE 0]
    IN  [st |-> close_log([s EXCEPT !.stats = derive(full)]), raised |-> FALSE]

\* run() after the loop: the averages read the raw sums latency and hops, and
\* the two del statements remove them; a key that is missing raises KeyError
\* at the statement that needs it, and close_log() is not reached
run_end(s) ==
    LET rs == s.stats
    IN  IF rs.delivered > 0 /\ "latency" \notin DOMAIN rs
        THEN [st |-> s, raised |-> TRUE]
        ELSE IF rs.delivered > 0 /\ "hops" \notin DOMAIN rs
        THEN [st |-> [s EXCEPT !.stats.latency_avg = Div(rs.latency, rs.delivered)],
              raised |-> TRUE]
        ELSE IF ~({"hops", "latency"} \subseteq DOMAIN rs)
        THEN [st |-> [s EXCEPT !.stats = derive(@)], raised |-> TRUE]
        ELSE [st |-> close_log([s EXCEPT !.stats = derive(@)]), raised |-> FALSE]

(* ----------------------------- __init__ ------------------------------- *)
InitStats ==
    [created |-> 0, delivered |-> 0, dropped |-> 0, hops |-> 0, latency |-> 0,
     started |-> 0, relayed |-> 0, removed |-> 0, aborted |-> 0, dups |-> 0,
     latency_avg |-> Zero, delivery_prob |-> Zero, hops_avg |-> Zero,
     overhead_ratio |-> Zero]

Constructed ==
    [now |-> 0, queue |-> {}, eid |-> 0, procs |-> <<>>, logstate |-> "closed",
     log |-> <<>>, stats |-> InitStats, neighbors |-> [n \in Nodes |-> {}],
     nbcalls |-> <<>>, trace |-> <<>>]

(* --------------- the visualizer (tools/ponsanim, main) ---------------- *)
\* the end of the timespan of a contact that is not closed yet
OPEN == -1

\* the keys main() reads from the dict of a CONFIG record
ConfigReads == {"x", "y", "id", "name"}

\* g = nx.Graph(); contacts = []
AnimStart == [graph |-> {}, contacts |-> <<>>, raised |-> FALSE]

\* cat == "CONFIG": g.add_node(event["id"], x=, y=, name=event["name"]);
\* reading a key the dict does not hold raises KeyError
anim_config(v, event) ==
    IF ConfigReads \subseteq DOMAIN event
    THEN [v EXCEPT !.graph = {g \in @ : g.id # event.id}
                              \cup {[id |-> event.id, x |-> event.x, y |-> event.y,
                                     name |-> event.name]}]
    ELSE [v EXCEPT !.raised = TRUE]

\* CoreContact(timespan, nodes, 0, 0, 0, 0)
CoreContact(timespan, nodes) == [timespan |-> timespan, nodes |-> nodes]

\* contacts.remove(c): the first element equal to c goes
ListRemove(cs, c) ==
    LET j == SetMin({k \in DOMAIN cs : cs[k] = c})
    IN  SubSeq(cs, 1, j - 1) \o SubSeq(cs, j + 1, Len(cs))

\* for c in contacts: if c is the open contact of these nodes, remove it and
\* append it closed.  The loop walks the list by position while the body
\* changes the list: i is the position of the list iterator.
RECURSIVE close_contacts(_, _, _, _)
close_contacts(cs, i, ts, nodes) ==
    IF i > Len(cs) THEN cs
    ELSE LET c == cs[i]
         IN  IF c.nodes = nodes /\ c.timespan[2] = OPEN
             THEN close_contacts(
                      Append(ListRemove(cs, c), CoreContact(<<c.timespan[1], ts>>, nodes)),
                      i + 1, ts, nodes)
             ELSE close_contacts(cs, i + 1, ts, nodes)

\* event["event"] == "UP"
link_up(cs, ts, event) == Append(cs, CoreContact(<<ts, OPEN>>, event.nodes))

\* a DOWN that appends the closed contact and leaves the open one in the list
link_down_appends(cs, ts, event) ==
    LET open == {k \in DOMAIN cs : cs[k].nodes = event.nodes /\ cs[k].timespan[2] = OPEN}
    IN  IF open = {} THEN cs
        ELSE Append(cs, CoreContact(<<cs[SetMin(open)].timespan[1], ts>>, event.nodes))

\* event["event"] == "DOWN"
link_down(cs, ts, event) == close_contacts(cs, 1, ts, event.nodes)

\* cat == "LINK"
anim_link(v, ts, event) ==
    LET up == IF event.event = "UP"
              THEN [v EXCEPT !.contacts = link_up(@, ts, event)] ELSE v
    IN  IF event.event = "DOWN"
        THEN [up EXCEPT !.contacts = link_down(@, ts, event)] ELSE up

\* the body of `for ts, cat, event in e_list`
load_record(v, rec) ==
    CASE rec.cat = "CONFIG" -> anim_config(v, rec.event)
      [] rec.cat = "LINK"   -> anim_link(v, rec.ts, rec.event)
      [] OTHER              -> v

(* ---------------------------- the scenarios --------------------------- *)
SliceChoices == {1, SLICE}

GenChoices ==
    [type : GenTypes, interval : {2}] \cup {[type |-> "single", interval |-> 1]}

\* the instants a contact may start or end at, for a run of d seconds
BoundaryTimes(d) == {0, 1, Sec(1), Sec(d), Sec(d) + 1, Sec(d + 1)}

Windows(d) ==
    {w \in BoundaryTimes(d) \X BoundaryTimes(d) : w[1] < w[2]}

Contact(pair, w) == [nodes |-> pair, start |-> w[1], end |-> w[2]]

\* one window on a link; two disjoint windows on it; windows on two links,
\* the second starting when the first starts or ends
Plans(d) ==
    {<<>>}
    \cup {<<Contact(p, w)>> : p \in {<<1, 2>>, <<2, NumNodes>>}, w \in Windows(d)}
    \cup {<<Contact(<<1, 2>>, w[1]), Contact(<<1, 2>>, w[2])>> :
            w \in {v \in Windows(d) \X Windows(d) : v[1][2] <= v[2][1]}}
    \cup {<<Contact(<<1, 2>>, w[1]), Contact(<<2, NumNodes>>, w[2])>> :
            w \in {v \in Windows(d) \X Windows(d) : v[2][1] \in {v[1][1], v[1][2]}}}

\* no interface has a plan; every interface has the one plan
NoPlan == [n \in Nodes |-> NOPLAN]
SharedPlan == [n \in Nodes |-> 1]

\* the scenarios without a contact plan: the loggers and the generators
SchedScenarios ==
    [duration : 0..MaxDuration, slice : SliceChoices,
     config : [movement_logger : BOOLEAN, peers_logger : BOOLEAN, event_logging : {FALSE}],
     msggens : SeqsUpTo(GenChoices, MaxGens),
     plans : {<<>>}, netplan : {NoPlan}, cporder : {<<>>}, router : {{"pending"}}]

\* the scenarios with a contact plan shared by every node
PlanScenarios ==
    UNION {[duration : {d}, slice : SliceChoices,
            config : [movement_logger : {FALSE}, peers_logger : BOOLEAN,
                      event_logging : BOOLEAN],
            msggens : {<<>>, <<[type |-> "single", interval |-> 2]>>},
            plans : {<<p>> : p \in Plans(d)}, netplan : {SharedPlan}, cporder : {<<1>>},
            router : {{"pending"}}]
           : d \in 0..MaxDuration}

\* the scenarios whose routers relay and deliver
StatsScenarios ==
    [duration : 0..MaxDuration, slice : {SLICE},
     config : [movement_logger : {FALSE}, peers_logger : {FALSE}, event_logging : BOOLEAN],
     msggens : SeqsUpTo({[type |-> "single", interval |-> 1],
                         [type |-> "burst", interval |-> 2]}, MaxGens),
     plans : {<<>>}, netplan : {NoPlan}, cporder : {<<>>}, router : {Outcomes}]

\* the last node, or the first, has no plan and the others share one
LastWithout == [n \in Nodes |-> IF n = NumNodes THEN NOPLAN ELSE 1]
FirstWithout == [n \in Nodes |-> IF n = 1 THEN NOPLAN ELSE 1]

\* the first node has one plan and the others share another
TwoPlans == [n \in Nodes |-> IF n = 1 THEN 1 ELSE 2]

\* two plans of one contact each, the second starting when the first starts
\* or ends
PlanPairs(d) ==
    {<<<<Contact(<<1, 2>>, w[1])>>, <<Contact(<<2, NumNodes>>, w[2])>>>> :
        w \in {v \in Windows(d) \X Windows(d) : v[2][1] \in {v[1][1], v[1][2]}}}

\* the scenarios in which not every interface has the same plan
MixedScenarios ==
    UNION {[duration : {d}, slice : {SLICE},
            config : [movement_logger : {FALSE}, peers_logger : {FALSE},
                      event_logging : BOOLEAN],
            msggens : {<<>>},
            plans : {<<<<Contact(<<1, 2>>, w)>>>> : w \in Windows(d)},
            netplan : {LastWithout, FirstWithout}, cporder : {<<1>>},
            router : {{"pending"}}]
           \cup
           [duration : {d}, slice : {SLICE},
            config : [movement_logger : {FALSE}, peers_logger : {FALSE},
                      event_logging : BOOLEAN],
            msggens : {<<>>},
            plans : PlanPairs(d),
            netplan : {TwoPlans}, cporder : {<<1, 2>>, <<2, 1>>},
            router : {{"pending"}}]
           : d \in 0..MaxDuration}

Scenarios == SchedScenarios \cup PlanScenarios \cup StatsScenarios \cup MixedScenarios

(* ----------------------------- the machine ---------------------------- *)
\* the visualizer has read nothing
AnimIdle ==
    /\ vpos = 0
    /\ graph = AnimStart.graph
    /\ contacts = AnimStart.contacts
    /\ vraised = AnimStart.raised

\* the routers hold nothing
RoutersIdle ==
    /\ stores = [n \in Routers |-> <<>>]
    /\ known = [n \in Routers |-> {}]
    /\ bundles = <<>>
    /\ capacity = CAPACITY

\* the engine, constructed for an empty scenario and never set up
EngineIdle ==
    /\ duration = 0
    /\ slice = SLICE
    /\ config = [movement_logger |-> FALSE, peers_logger |-> FALSE, event_logging |-> FALSE]
    /\ msggens = <<>>
    /\ plans = <<>>
    /\ netplan = NoPlan
    /\ cporder = <<>>
    /\ router = {"pending"}
    /\ now = Constructed.now
    /\ queue = Constructed.queue
    /\ eid = Constructed.eid
    /\ procs = Constructed.procs
    /\ routing_stats = Constructed.stats
    /\ neighbors = Constructed.neighbors
    /\ nbcalls = Constructed.nbcalls
    /\ trace = Constructed.trace

Assign(s) ==
    /\ now' = s.now
    /\ queue' = s.queue
    /\ eid' = s.eid
    /\ procs' = s.procs
    /\ logstate' = s.logstate
    /\ log' = s.log
    /\ routing_stats' = s.stats
    /\ neighbors' = s.neighbors
    /\ nbcalls' = s.nbcalls
    /\ trace' = s.trace

Init ==
    /\ \E sc \in Scenarios :
        /\ duration = sc.duration
        /\ slice = sc.slice
        /\ config = sc.config
        /\ msggens = sc.msggens
        /\ plans = sc.plans
        /\ netplan = sc.netplan
        /\ cporder = sc.cporder
        /\ router = sc.router
    /\ pc = "constructed"
    /\ now = Constructed.now
    /\ queue = Constructed.queue
    /\ eid = Constructed.eid
    /\ procs = Constructed.procs
    /\ logstate = Constructed.logstate
    /\ log = Constructed.log
    /\ routing_stats = Constructed.stats
    /\ neighbors = Constructed.neighbors
    /\ nbcalls = Constructed.nbcalls
    /\ trace = Constructed.trace
    /\ AnimIdle
    /\ RoutersIdle

\* netsim.setup(): it returns, or raises on an unknown generator type
Setup ==
    /\ pc = "constructed"
    /\ LET r == setup(St)
       IN  /\ Assign(r.st)
           /\ pc' = IF r.raised THEN "raised" ELSE "ready"
    /\ UNCHANGED <<scenario, anim, routers>>

\* netsim.run(), up to the loop
RunStart ==
    /\ pc = "ready"
    /\ Assign(run_start(St))
    /\ pc' = "loop"
    /\ UNCHANGED <<scenario, anim, routers>>

\* one iteration of the loop, up to the first step of env.run
LoopIter ==
    /\ pc = "loop"
    /\ loop_cond(St)
    /\ Assign(run_until(St, next_stop(St)))
    /\ pc' = "run"
    /\ UNCHANGED <<scenario, anim, routers>>

\* the routers' outcome lies with the scenario when a generator creates a bundle
OutcomesOf(s) ==
    LET ev == Pop(s.queue)
    IN  IF ev.tid # STOP /\ s.procs[ev.tid].kind \in {"single", "burst"}
           /\ s.procs[ev.tid].pc = "wait"
        THEN router ELSE {"pending"}

\* one step of env.run: the until-event ends the slice
Step ==
    /\ pc = "run"
    /\ \E o \in OutcomesOf(St) : Assign(EnvStep(St, o))
    /\ pc' = IF Pop(queue).tid = STOP THEN "loop" ELSE "run"
    /\ UNCHANGED <<scenario, anim, routers>>

\* netsim.run(), after the loop: it returns, or raises on a missing raw sum
Finish ==
    /\ pc = "loop"
    /\ ~loop_cond(St)
    /\ LET r == run_end(St)
       IN  /\ Assign(r.st)
           /\ pc' = IF r.raised THEN "failed" ELSE "done"
    /\ UNCHANGED <<scenario, anim, routers>>

Next == Setup \/ RunStart \/ LoopIter \/ Step \/ Finish

Spec == Init /\ [][Next]_vars

(* ---------------- run() called again on the same instance ------------- *)
\* netsim.run() once more after a run that has completed, up to the loop; the
\* loop and the end of run() are those of the first call
RunAgain ==
    /\ pc = "done"
    /\ Assign(run_start(St))
    /\ pc' = "loop"
    /\ UNCHANGED <<scenario, anim, routers>>

AgainNext == Next \/ RunAgain

AgainSpec == Init /\ [][AgainNext]_vars

(* ------------------- the visualizer on its own ----------------------- *)
\* the event logs read: a CONFIG record as the engine writes it or with a
\* name, or none, and then LINK records in time order
MaxLog == 4

AnimPairs == {<<1, 2>>, <<2, NumNodes>>}

LinkRecords(t) ==
    {[ts |-> t, cat |-> "LINK", event |-> [event |-> e, nodes |-> p]] :
        e \in {"UP", "DOWN"}, p \in AnimPairs}

LastTs(l) == IF l = <<>> THEN 0 ELSE l[Len(l)].ts

\* what a LINK record adds to a log: the event, the node pair, and whether
\* time has moved on since the record before it
LinkChoices == {"UP", "DOWN"} \X AnimPairs \X {0, 1}

\* the log of the first n choices of f
RECURSIVE LinkLog(_, _)
LinkLog(f, n) ==
    IF n = 0 THEN <<>>
    ELSE LET l == LinkLog(f, n - 1)
         IN  Append(l, [ts |-> LastTs(l) + f[n][3], cat |-> "LINK",
                        event |-> [event |-> f[n][1], nodes |-> f[n][2]]])

NamedConfigEvent(n) ==
    [event |-> "START", id |-> n, x |-> n, y |-> 0, capacity |-> CAPACITY, used |-> 0,
     name |-> "n"]

\* a CONFIG record, as the engine writes it or with a name, and a LINK record
ConfigLogs ==
    {<<[ts |-> 0, cat |-> "CONFIG", event |-> e], r>> :
        e \in {ConfigEvent(1), NamedConfigEvent(1)},
        r \in LinkRecords(0) \cup LinkRecords(1)}

AnimInit ==
    /\ EngineIdle
    /\ RoutersIdle
    /\ pc = "anim"
    /\ logstate = "shut"
    /\ \/ \E n \in 0..MaxLog : \E f \in [1..n -> LinkChoices] : log = LinkLog(f, n)
       \/ log \in ConfigLogs
    /\ AnimIdle

\* one record of the event log is read
LoadRecord ==
    /\ pc = "anim"
    /\ ~vraised
    /\ vpos < Len(log)
    /\ LET v == load_record([graph |-> graph, contacts |-> contacts, raised |-> vraised],
                            log[vpos + 1])
       IN  /\ graph' = v.graph
           /\ contacts' = v.contacts
           /\ vraised' = v.raised
    /\ vpos' = vpos + 1
    /\ UNCHANGED <<scenario, pc, now, queue, eid, procs, logstate, log, routing_stats,
                   neighbors, nbcalls, trace, routers>>

AnimNext == LoadRecord

AnimSpec == AnimInit /\ [][AnimNext]_vars

(* ------------- the routers and their stores (pons.routing) ------------ *)
\* bounds: the bundles created, the clock and the transmissions of a run of
\* the routers
MaxBundles == 2
MaxTime == 2
MaxRelays == 2

\* the sizes of the bundles and the capacity of the stores: a bundle may
\* leave room in a store, fill it, or be larger than it
Sizes == {1, 2, 3}
Capacities == {2}

\* "src": (0, 1), "dst": (1, NUM_NODES): the first node sends to the others
SrcRange == {1}
DstRange == Routers \ SrcRange

\* The part of the state a router event reads and writes.
Rt ==
    [now |-> now, stores |-> stores, known |-> known, bundles |-> bundles,
     stats |-> routing_stats, capacity |-> capacity]

\* the router's `used`: the sum of the sizes of the copies a store holds
RECURSIVE Used(_)
Used(store) == IF store = <<>> THEN 0 ELSE Head(store).size + Used(Tail(store))

Holds(store, id) == \E k \in DOMAIN store : store[k].id = id

\* the drop policy: evict the copy created earliest, one at a time, until
\* size fits; each eviction is a drop
RECURSIVE make_room(_, _, _)
make_room(r, n, size) ==
    LET st == r.stores[n]
    IN  IF st = <<>> \/ Used(st) + size <= r.capacity THEN r
        ELSE LET old == SetMin({st[k].created : k \in DOMAIN st})
                 j   == SetMin({k \in DOMAIN st : st[k].created = old})
                 cut == SubSeq(st, 1, j - 1) \o SubSeq(st, j + 1, Len(st))
             IN  make_room([r EXCEPT !.stores[n] = cut, !.stats.dropped = @ + 1], n, size)

\* a store that takes the copy without making room for it
store_add_unchecked(r, n, c) == [r EXCEPT !.stores[n] = Append(@, c)]

\* the copy c enters the store of n: refused and counted as dropped when it is
\* larger than the capacity, stored after the evictions it needs otherwise
store_add(r, n, c) ==
    IF c.size > r.capacity
    THEN [r EXCEPT !.stats.dropped = @ + 1]
    ELSE [make_room(r, n, c.size) EXCEPT !.stores[n] = Append(@, c)]

\* on_bundle_created: a new bundle at its source
create(r, src, dst, size, ttl) ==
    LET id == Len(r.bundles) + 1
        b  == [id |-> id, src |-> src, dst |-> dst, size |-> size,
               created |-> r.now, ttl |-> ttl]
        c  == [id |-> id, dst |-> dst, size |-> size, created |-> r.now, ttl |-> ttl,
               hops |-> 0]
        r1 == [r EXCEPT !.bundles = Append(@, b),
                        !.known[src] = @ \cup {id},
                        !.stats.created = @ + 1]
    IN  store_add(r1, src, c)

\* a receipt that counts a delivery for every copy that reaches a destination
receive_every_copy(r, n, c) ==
    LET d == IF n \in c.dst
             THEN [r EXCEPT !.stats.delivered = @ + 1,
                            !.stats.hops = @ + c.hops,
                            !.stats.latency = @ + (r.now - c.created)]
             ELSE r
    IN  store_add([d EXCEPT !.known[n] = @ \cup {c.id}], n, c)

\* on_bundle_received: a bundle the node has had is a duplicate and is not
\* stored again; at a destination the bundle is delivered, once for this
\* destination; then it enters the store
receive(r, n, c) ==
    IF c.id \in r.known[n]
    THEN [r EXCEPT !.stats.dups = @ + 1]
    ELSE LET d == IF n \in c.dst
                  THEN [r EXCEPT !.stats.delivered = @ + 1,
                                 !.stats.hops = @ + c.hops,
                                 !.stats.latency = @ + (r.now - c.created)]
                  ELSE r
         IN  store_add([d EXCEPT !.known[n] = @ \cup {c.id}], n, c)

\* epidemic: a node in contact with a peer sends a bundle the peer lacks
forward(r, a, b, k) ==
    LET c == r.stores[a][k]
    IN  receive([r EXCEPT !.stats.relayed = @ + 1], b, [c EXCEPT !.hops = @ + 1])

\* a store scan: the copies older than their time-to-live are aborted
purge(r, n) ==
    LET keep == SelectSeq(r.stores[n], LAMBDA c : r.now - c.created <= c.ttl)
    IN  [r EXCEPT !.stores[n] = keep,
                  !.stats.aborted = @ + (Len(r.stores[n]) - Len(keep))]

RoutersAssign(r) ==
    /\ now' = r.now
    /\ stores' = r.stores
    /\ known' = r.known
    /\ bundles' = r.bundles
    /\ routing_stats' = r.stats
    /\ capacity' = r.capacity
    /\ UNCHANGED <<scenario, pc, queue, eid, procs, logstate, log, neighbors, nbcalls,
                   trace, anim>>

\* the destinations of a bundle: the last node of the range, or all of them
DstChoices == {{NUM_NODES}, DstRange}

RoutersInit ==
    /\ EngineIdle
    /\ AnimIdle
    /\ pc = "routers"
    /\ logstate = "closed"
    /\ log = <<>>
    /\ stores = [n \in Routers |-> <<>>]
    /\ known = [n \in Routers |-> {}]
    /\ bundles = <<>>
    /\ capacity \in Capacities

\* a bundle is created, with a time-to-live of one tick
Create ==
    /\ pc = "routers"
    /\ Len(bundles) < MaxBundles
    /\ \E src \in SrcRange, dst \in DstChoices, size \in Sizes, ttl \in {1} :
         RoutersAssign(create(Rt, src, dst, size, ttl))

\* a bundle is sent to a peer in contact and received there
Forward ==
    /\ pc = "routers"
    /\ routing_stats.relayed < MaxRelays
    /\ \E a \in Routers, b \in Routers :
         /\ a # b
         /\ \E k \in DOMAIN stores[a] :
              /\ ~Holds(stores[b], stores[a][k].id)
              /\ RoutersAssign(forward(Rt, a, b, k))

\* a node scans its store
Purge ==
    /\ pc = "routers"
    /\ \E n \in Routers :
         /\ \E k \in DOMAIN stores[n] : now - stores[n][k].created > stores[n][k].ttl
         /\ RoutersAssign(purge(Rt, n))

\* the clock advances
Tick ==
    /\ pc = "routers"
    /\ now < MaxTime
    /\ RoutersAssign([Rt EXCEPT !.now = @ + 1])

RoutersNext == Create \/ Forward \/ Purge \/ Tick

RoutersSpec == RoutersInit /\ [][RoutersNext]_vars

(* ------------------------------ the claims ---------------------------- *)
IsPeriodic(kind) == kind \in {"movement_logger", "peers_logger", "single", "burst"}

\* the work left to run(): for every pending task event the ticks from it to
\* the end of the run, the ticks from the clock to the end of the run, and
\* the loop's own position
EventWork(e) ==
    IF e.tid = STOP \/ e.time > Sec(duration + 1) THEN 0
    ELSE Sec(duration + 1) - e.time + 1

RECURSIVE QueueWork(_)
QueueWork(q) ==
    IF q = {} THEN 0
    ELSE LET e == CHOOSE x \in q : TRUE IN EventWork(e) + QueueWork(q \ {e})

WorkLeft ==
    QueueWork(queue) + 2 * (Sec(duration + 1) - now) + (IF pc = "loop" THEN 1 ELSE 0)

LoopStepLowersWork ==
    pc \in {"loop", "run"} => (WorkLeft' < WorkLeft /\ 0 <= WorkLeft')

\* C1: run() leaves its time-advance loop, and the clock then is exactly
\* duration + 1 (it never passes duration + 1), although the periodic tasks
\* never finish: inside env.run the until-event is pending, so a step can be
\* taken, the loop itself can always iterate or exit, and every step of the
\* loop lowers the work left, which is never negative.
C1_LoopEndsAtDurationPlusOne ==
    /\ [](now <= Sec(duration + 1))
    /\ [](pc = "done" => now = Sec(duration + 1))
    /\ [](pc = "run" => \E e \in queue : e.tid = STOP /\ e.time <= Sec(duration + 1))
    /\ [][LoopStepLowersWork]_vars

C1_Witness ==
    /\ pc = "done"
    /\ duration = MaxDuration
    /\ now = Sec(duration + 1)
    /\ \E i \in DOMAIN procs : procs[i].kind = "peers_logger" /\ procs[i].pc = "wait"
    /\ \E i \in DOMAIN procs : procs[i].kind = "single" /\ procs[i].pc = "wait"

\* the run as one env.run(until=duration + 1), without slices
RECURSIVE Drain(_)
Drain(s) ==
    IF Pop(s.queue).tid = STOP THEN EnvStep(s, "pending")
    ELSE Drain(EnvStep(s, "pending"))

SingleRun ==
    LET s == run_start(setup(Constructed).st)
    IN  Drain(run_until(s, Sec(duration + 1)))

Steps(tr) == [i \in DOMAIN tr |-> <<tr[i].tid, tr[i].first, tr[i].t>>]

\* C2: the run in slices executes the same task steps, in the same order and
\* at the same times, and appends the same log records, as one
\* run-until(duration + 1).
C2_SlicesInvisible ==
    pc = "done" =>
        /\ Steps(trace) = Steps(SingleRun.trace)
        /\ log = SingleRun.log

\* a run of several slices with a step due exactly on a slice boundary
C2_Witness ==
    /\ pc = "done"
    /\ slice = 1
    /\ duration >= 2
    /\ \E i \in DOMAIN trace : trace[i].t = Sec(slice) /\ ~trace[i].first
    /\ \E i \in DOMAIN trace : trace[i].t = Sec(2 * slice) /\ trace[i].kind = "single"

\* C3 as claimed: tasks resumed at the same instant are resumed in the order
\* of their registration.
C3_RegistrationOrder ==
    \A i \in 1..(Len(trace) - 1) :
        trace[i].t = trace[i + 1].t => trace[i].tid < trace[i + 1].tid

\* C3, amended: tasks resumed at the same instant are resumed in the order in
\* which the events they wait for were scheduled; for periodic tasks of equal
\* period that is the order of their registration; and no step is left
\* behind when the clock advances.
C3_SchedulingOrder ==
    /\ \A i \in 1..(Len(trace) - 1) :
        /\ trace[i].t <= trace[i + 1].t
        /\ trace[i].t = trace[i + 1].t =>
            /\ trace[i].eid < trace[i + 1].eid
            /\ (/\ IsPeriodic(trace[i].kind)
                /\ IsPeriodic(trace[i + 1].kind)
                /\ procs[trace[i].tid].arg = procs[trace[i + 1].tid].arg)
               => trace[i].tid < trace[i + 1].tid
    /\ \A e \in queue : e.time >= now

\* two loggers and a generator of another period resumed at one instant
C3_Witness ==
    \E i \in 1..(Len(trace) - 2) :
        /\ trace[i].t = trace[i + 2].t
        /\ trace[i].kind = "single"
        /\ trace[i + 1].kind = "movement_logger"
        /\ trace[i + 2].kind = "peers_logger"
        /\ trace[i].tid > trace[i + 1].tid

\* C4 as claimed: when a logger or a generator steps in a contact-plan
\* scenario, every node's neighbor set is the one the plan gives for that
\* instant (the update of a boundary at that instant has been applied).
C4_NeighborsFreshAtStep ==
    using_contactplan =>
        \A i \in DOMAIN trace :
            (IsPeriodic(trace[i].kind) /\ ~trace[i].first) => trace[i].fresh

\* the LINK records of the log with this event, node pair and timestamp
LogCount(cat, ev, who, ts) ==
    Cardinality({i \in DOMAIN log :
        /\ log[i].cat = cat
        /\ log[i].event.event = ev
        /\ log[i].event.nodes = who
        /\ log[i].ts = ts})

\* C5 as claimed: with logging on and a plan in use, a finished run has logged
\* exactly one LINK/UP at s for every contact starting at s in [0, duration]
\* and exactly one LINK/DOWN at e for every contact ending at e in
\* [0, duration].
C5_EveryTransitionLoggedOnce ==
    (pc = "done" /\ config.event_logging /\ using_contactplan) =>
        \A cp \in all_contactplans : \A i \in DOMAIN plans[cp] :
            LET c == plans[cp][i]
            IN  /\ c.start <= Sec(duration)
                    => LogCount("LINK", "UP", c.nodes, c.start) = 1
                /\ c.end <= Sec(duration)
                    => LogCount("LINK", "DOWN", c.nodes, c.end) = 1

\* C6 as claimed: no LINK record carries a timestamp greater than duration.
C6_NoLinkPastDuration ==
    \A i \in DOMAIN log : log[i].cat = "LINK" => log[i].ts <= Sec(duration)

\* the fraction x is a number and equals a / b
Equals(x, a, b) == x[2] > 0 /\ b > 0 /\ x[1] * b = a * x[2]

DerivesMetrics ==
    (pc = "loop" /\ pc' = "done") =>
        /\ routing_stats.delivered > 0 =>
            /\ Equals(routing_stats'.latency_avg,
                      routing_stats.latency, routing_stats.delivered)
            /\ Equals(routing_stats'.hops_avg,
                      routing_stats.hops, routing_stats.delivered)
            /\ Equals(routing_stats'.overhead_ratio,
                      routing_stats.relayed - routing_stats.delivered,
                      routing_stats.delivered)
        /\ routing_stats.created > 0 =>
            Equals(routing_stats'.delivery_prob,
                   routing_stats.delivered, routing_stats.created)

\* C7: when run() completes with delivered > 0, latency_avg = latency /
\* delivered, hops_avg = hops / delivered, overhead_ratio = (relayed -
\* delivered) / delivered, and with created > 0 delivery_prob = delivered /
\* created, of the counters held when the loop exits.
C7_DerivedMetrics == [][DerivesMetrics]_vars

C7_Witness ==
    /\ pc = "done"
    /\ routing_stats.delivered > 1
    /\ routing_stats.created > routing_stats.delivered
    /\ routing_stats.relayed > 2 * routing_stats.delivered
    /\ Equals(routing_stats.hops_avg, 2, 1)
    /\ Equals(routing_stats.latency_avg, 3, 1)

\* C8: after run(), delivered = 0 leaves latency_avg, hops_avg and
\* overhead_ratio exactly 0 and created = 0 leaves delivery_prob exactly 0,
\* whatever the other counters are; none of them is an undefined quotient.
C8_ZeroDenominators ==
    pc = "done" =>
        /\ routing_stats.delivered = 0 =>
            /\ Equals(routing_stats.latency_avg, 0, 1)
            /\ Equals(routing_stats.hops_avg, 0, 1)
            /\ Equals(routing_stats.overhead_ratio, 0, 1)
        /\ routing_stats.created = 0 => Equals(routing_stats.delivery_prob, 0, 1)
        /\ \A k \in {"latency_avg", "hops_avg", "overhead_ratio", "delivery_prob"} :
            routing_stats[k][2] > 0

C8_Witness ==
    /\ pc = "done"
    /\ routing_stats.delivered = 0
    /\ routing_stats.relayed > 0
    /\ routing_stats.created > 1

RawSums == {"hops", "latency"}
Counters ==
    {"created", "delivered", "dropped", "relayed", "aborted", "dups", "started", "removed"}
Derived == {"latency_avg", "hops_avg", "overhead_ratio", "delivery_prob"}

ReportKeepsCounters ==
    (pc = "loop" /\ pc' = "done") =>
        /\ DOMAIN routing_stats = Counters \cup Derived \cup RawSums
        /\ DOMAIN routing_stats' = Counters \cup Derived
        /\ \A k \in Counters : routing_stats'[k] = routing_stats[k]

\* C9: the report of a completed run() holds neither hops nor latency, and
\* every other counter with the value it had when the loop exited.
C9_ReportFrame == [][ReportKeepsCounters]_vars

C9_Witness ==
    /\ pc = "done"
    /\ DOMAIN routing_stats = Counters \cup Derived
    /\ routing_stats.created > 0
    /\ routing_stats.relayed > 0
    /\ routing_stats.delivered > 0

\* the kinds of the generator tasks registered, in registration order
GenKinds ==
    LET g == SelectSeq(procs, LAMBDA p : p.kind \in {"single", "burst"})
    IN  [i \in DOMAIN g |-> g[i].kind]

\* C10: setup() starts a single-shot generator for a type that is absent,
\* None or "single" and a burst generator for "burst"; any other type,
\* wherever it stands in the list, makes setup() raise with the clock at 0 and
\* no task step taken, and run() is not reached.
C10_GeneratorDispatch ==
    LET bad == \E i \in DOMAIN msggens : msggens[i].type \notin
                   {"absent", "None", "single", "burst"}
    IN  pc # "constructed" =>
            /\ bad <=> pc = "raised"
            /\ pc = "raised" => (now = 0 /\ trace = <<>>)
            /\ pc # "raised" =>
                GenKinds = [i \in DOMAIN msggens |->
                               IF msggens[i].type = "burst" THEN "burst" ELSE "single"]

C10_Witness ==
    /\ pc = "raised"
    /\ Len(msggens) = 2
    /\ msggens[1].type = "burst"
    /\ msggens[2].type = "bogus"
    /\ config.peers_logger

\* C11 as claimed: in a scenario with a contact plan no node's calc_neighbors
\* is ever invoked, in setup() or in run(); the neighbor sets are seeded through
\* add_all_neighbors only.
C11_NoDistanceScanWithPlan ==
    using_contactplan =>
        \A i \in DOMAIN nbcalls : nbcalls[i].call = "add_all_neighbors"

\* the LINK records among the first k records of the log
Links(k) == SelectSeq(SubSeq(log, 1, k), LAMBDA r : r.cat = "LINK")

SetMax(S) == CHOOSE x \in S : \A y \in S : y <= x

\* UP and DOWN alternate for every node pair, starting with UP
Alternates(l) ==
    \A i \in DOMAIN l :
        LET before == {j \in 1..(i - 1) : l[j].event.nodes = l[i].event.nodes}
        IN  IF before = {} THEN l[i].event.event = "UP"
            ELSE l[SetMax(before)].event.event # l[i].event.event

Ups(l) == {i \in DOMAIN l : l[i].event.event = "UP"}

\* the contact the UP record at position i of l opens: it ends with the next
\* DOWN of its node pair, or is still open
ContactOf(l, i) ==
    LET downs == {j \in (i + 1)..Len(l) :
                     l[j].event.nodes = l[i].event.nodes /\ l[j].event.event = "DOWN"}
    IN  CoreContact(<<l[i].ts, IF downs = {} THEN OPEN ELSE l[SetMin(downs)].ts>>,
                    l[i].event.nodes)

\* C12: whenever the LINK records read so far alternate UP, DOWN for every
\* node pair, starting with UP, the contacts rebuilt are exactly one per UP
\* record, each from its UP to the next DOWN of its pair or open (end -1) if
\* none follows; so a DOWN replaces the open contact of its pair: it neither
\* adds a contact nor leaves a closed copy beside the open one.
C12_DownClosesOpenContact ==
    (pc = "anim" /\ ~vraised) =>
        LET l == Links(vpos)
        IN  Alternates(l) =>
                /\ Len(contacts) = Cardinality(Ups(l))
                /\ \A i \in Ups(l) :
                      Cardinality({k \in DOMAIN contacts : contacts[k] = ContactOf(l, i)})
                      = Cardinality({j \in Ups(l) : ContactOf(l, j) = ContactOf(l, i)})

\* a DOWN that closes the first of two open contacts, followed by a new UP of
\* the pair: a closed and an open contact of one pair, and another pair open
C12_Witness ==
    /\ pc = "anim"
    /\ vpos = MaxLog
    /\ Len(log) = MaxLog
    /\ Alternates(Links(vpos))
    /\ log[1].event.event = "UP"
    /\ log[2].event.event = "UP"
    /\ log[3].event.event = "DOWN"
    /\ log[3].event.nodes = log[1].event.nodes
    /\ \E i, j, k \in DOMAIN contacts :
           /\ contacts[i].nodes = contacts[j].nodes
           /\ contacts[i].timespan[2] # OPEN
           /\ contacts[j].timespan[2] = OPEN
           /\ contacts[k].nodes # contacts[i].nodes
           /\ contacts[k].timespan[2] = OPEN

\* the CONFIG records of the log
ConfigRecords == {i \in DOMAIN log : log[i].cat = "CONFIG"}

\* with logging on, run() emits exactly one CONFIG record per node, at time
\* 0, with the keys event, id, x, y, capacity and used
OneConfigPerNode ==
    /\ (config.event_logging /\ pc \in {"loop", "run", "done"}) =>
          /\ Cardinality(ConfigRecords) = NumNodes
          /\ \A n \in Nodes : \E i \in ConfigRecords : log[i].event.id = n
    /\ \A i \in ConfigRecords :
          /\ log[i].ts = 0
          /\ DOMAIN log[i].event = {"event", "id", "x", "y", "capacity", "used"}

\* C13 as claimed: the engine emits exactly one CONFIG record per node at
\* time 0, and every key the visualizer reads from a CONFIG record (id, x, y,
\* name) is a key of the record the engine emits, so that the visualizer
\* reads the record without raising.
C13_ConfigFieldContract ==
    /\ OneConfigPerNode
    /\ \A i \in ConfigRecords :
          /\ ConfigReads \subseteq DOMAIN log[i].event
          /\ ~anim_config(AnimStart, log[i].event).raised

\* no step lowers the clock, and the until-event a loop iteration schedules lies
\* after the clock and not after duration + 1
ClockAdvances ==
    /\ now' >= now
    /\ (pc = "loop" /\ pc' = "run") =>
          \E e \in queue' \ queue :
              e.tid = STOP /\ e.time > now /\ e.time <= Sec(duration + 1)

\* C14: the clock is never negative and never lowered, by setup(), by a task
\* step or by a slice of the run loop, and every run-until target of the loop
\* is strictly greater than the clock and at most duration + 1.
C14_ClockMonotonic ==
    /\ [](now >= 0)
    /\ [][ClockAdvances]_vars

\* a second slice of one second, begun at a clock that has advanced
C14_Witness ==
    /\ pc = "run"
    /\ slice = 1
    /\ now = Sec(1)
    /\ \E e \in queue : e.tid = STOP /\ e.time = Sec(2)
    /\ \E i \in DOMAIN trace : trace[i].t = Sec(1)

\* the store of every node holds at most the capacity
WithinCapacity == \A n \in Routers : Used(stores[n]) <= capacity

RECURSIVE Destinations(_)
Destinations(bs) ==
    IF bs = <<>> THEN 0 ELSE Cardinality(Head(bs).dst) + Destinations(Tail(bs))

OversizeRefused ==
    (Len(bundles') = Len(bundles) + 1 /\ bundles'[Len(bundles')].size > capacity) =>
        /\ stores' = stores
        /\ routing_stats'.dropped = routing_stats.dropped + 1

StepsOf(tid) == {i \in DOMAIN trace : trace[i].tid = tid /\ ~trace[i].first}

\* C17: every task step executed is due before duration + 1, and when run()
\* has completed no step due before duration + 1 is left in the queue: a step
\* due at exactly duration + 1 stays there.  So a logger of interval 1.0
\* registered in setup() has taken exactly `duration` steps, at the times
\* 1, 2, .., duration.
C17_StepsBeforeDurationPlusOne ==
    /\ \A i \in DOMAIN trace : trace[i].t < Sec(duration + 1)
    /\ pc = "done" =>
          /\ \A e \in queue : e.time >= Sec(duration + 1)
          /\ \A tid \in DOMAIN procs :
                procs[tid].kind \in {"movement_logger", "peers_logger"} =>
                    /\ Cardinality(StepsOf(tid)) = duration
                    /\ {trace[i].t : i \in StepsOf(tid)} = {Sec(k) : k \in 1..duration}
                    /\ \E e \in queue : e.tid = tid /\ e.time = Sec(duration + 1)

\* a completed run of the longest duration with both loggers and a generator
\* whose next steps are all due at exactly duration + 1
C17_Witness ==
    /\ pc = "done"
    /\ duration = MaxDuration
    /\ \E i, j, k \in DOMAIN procs :
          /\ procs[i].kind = "movement_logger"
          /\ procs[j].kind = "peers_logger"
          /\ procs[k].kind = "single"
          /\ procs[k].arg = 1
          /\ Cardinality(StepsOf(i)) = MaxDuration
          /\ \A t \in {i, j, k} : \E e \in queue : e.tid = t /\ e.time = Sec(duration + 1)

\* the contact loggers begun so far
ContactLoggers == {tid \in DOMAIN procs : procs[tid].kind = "contact_logger"}

\* the LINK records of a log
LinkRecordsOf(l) == {i \in DOMAIN l : l[i].cat = "LINK"}

\* a contact logger that a step resumes from its timeout finds its total equal
\* to the clock, at a boundary of its plan later than its last wake-up, and the
\* LINK records the step appends carry the clock
LoggerWakesAtBoundary ==
    /\ \A tid \in ContactLoggers :
          (procs[tid].pc = "wait" /\ procs'[tid] # procs[tid]) =>
              /\ procs'[tid].total = now'
              /\ procs'[tid].total > procs[tid].total
              /\ procs'[tid].total \in Boundaries(ContactsOf(procs[tid].arg))
    /\ Len(log') >= Len(log) =>
          \A i \in (Len(log) + 1)..Len(log') :
              log'[i].cat = "LINK" => log'[i].ts = now'

\* the LINK records of the log are in non-decreasing time order
LinksInTimeOrder ==
    \A i, j \in LinkRecordsOf(log) : i < j => log[i].ts <= log[j].ts

\* C18: each time a contact logger resumes after a timeout its total equals the
\* clock, its wake-up times are strictly increasing boundaries of its plan,
\* every LINK record carries the clock of the step that emits it, and the LINK
\* records of the log are in non-decreasing time order.
C18_LoggerTotalIsClock ==
    /\ [][LoggerWakesAtBoundary]_vars
    /\ []LinksInTimeOrder

\* two loggers of two plans, the second woken twice, with the records of both
\* plans in the log
C18_Witness ==
    /\ Cardinality(ContactLoggers) = 2
    /\ \E tid \in ContactLoggers :
          /\ procs[tid].total = now
          /\ Cardinality(StepsOf(tid)) = 2
    /\ \E i, j \in LinkRecordsOf(log) :
          /\ i < j
          /\ log[i].ts < log[j].ts
          /\ log[i].event.nodes # log[j].event.nodes

\* the contacts of the plans in use that make the transition ev of link who at ts
TransitionsAt(ev, who, ts) ==
    UNION {{<<cp, k>> : k \in {j \in DOMAIN plans[cp] :
                                /\ plans[cp][j].nodes = who
                                /\ ts = IF ev = "UP" THEN plans[cp][j].start
                                                     ELSE plans[cp][j].end}}
           : cp \in all_contactplans}

\* once run() has begun its tasks, every plan in use has one logger and there
\* is no other logger
OneLoggerPerPlan ==
    pc \in {"loop", "run", "done"} =>
        /\ \A cp \in all_contactplans :
              Cardinality({tid \in ContactLoggers : procs[tid].arg = cp}) = 1
        /\ \A tid \in ContactLoggers : procs[tid].arg \in all_contactplans

\* a transition is in the log at most once for each contact that makes it
LoggedOncePerPlan ==
    \A i \in LinkRecordsOf(log) :
        LogCount("LINK", log[i].event.event, log[i].event.nodes, log[i].ts)
            <= Cardinality(TransitionsAt(log[i].event.event, log[i].event.nodes, log[i].ts))

\* a logger begun with logging disabled, or for a plan without a boundary, is
\* resumed once, returns, and leaves no timeout in the queue and no record
IdleLoggerEnds ==
    /\ \A tid \in ContactLoggers :
          (~config.event_logging \/ next_event(ContactsOf(procs[tid].arg), 0) = NONE) =>
              /\ procs[tid].pc \in {"start", "done"}
              /\ \A e \in queue : e.tid = tid => (e.prio = URGENT /\ procs[tid].pc = "start")
              /\ Cardinality({k \in DOMAIN trace : trace[k].tid = tid}) <= 1
              /\ procs[tid].pc = "done" =>
                    Cardinality({k \in DOMAIN trace : trace[k].tid = tid}) = 1
    /\ ~config.event_logging => LinkRecordsOf(log) = {}
    /\ (\A cp \in all_contactplans : next_event(plans[cp], 0) = NONE) =>
          LinkRecordsOf(log) = {}

\* C19: run() starts exactly one contact logger for each distinct plan, however
\* many nodes share the plan, so a transition of a shared plan is logged once;
\* with logging disabled or a plan without a boundary the logger returns at its
\* first resumption, with no timeout scheduled and no record emitted.
C19_OneLoggerPerPlan ==
    /\ OneLoggerPerPlan
    /\ LoggedOncePerPlan
    /\ IdleLoggerEnds

\* a finished run in which every node shares the one plan, whose single logger
\* has logged the start and the end of a contact
C19_Witness ==
    /\ pc = "done"
    /\ netplan = SharedPlan
    /\ Cardinality(ContactLoggers) = 1
    /\ \E i, j \in LinkRecordsOf(log) :
          /\ log[i].event.event = "UP"
          /\ log[j].event.event = "DOWN"
          /\ log[i].event.nodes = log[j].event.nodes

\* a finished run whose logger of a plan without contacts has returned at its
\* first resumption
C19_IdleWitness ==
    /\ pc = "done"
    /\ config.event_logging
    /\ \E tid \in ContactLoggers :
          /\ ContactsOf(procs[tid].arg) = <<>>
          /\ procs[tid].pc = "done"

\* the neighbor calls a step adds to those made before it
Seeded == SubSeq(nbcalls', Len(nbcalls) + 1, Len(nbcalls'))

\* run() seeds every node once, at the clock it starts at, with
\* add_all_neighbors when some interface has a plan and with calc_neighbors
\* otherwise, before any task is resumed; the steps after it seed no node
SeedsAllOrNothing ==
    /\ (pc = "ready" /\ pc' = "loop") =>
          /\ Len(Seeded) = NumNodes
          /\ \A n \in Nodes :
                Cardinality({i \in DOMAIN Seeded : Seeded[i].node = n}) = 1
          /\ \A i \in DOMAIN Seeded :
                /\ Seeded[i].t = now
                /\ Seeded[i].call =
                      IF \E n \in Nodes : netplan[n] # NOPLAN
                      THEN "add_all_neighbors" ELSE "calc_neighbors"
          /\ now' = now
          /\ trace' = <<>>
    /\ pc \in {"loop", "run"} => nbcalls' = nbcalls

\* C20: the seeding of run() is all-or-nothing: when any interface of any node
\* has a plan every node, also one without a plan, is seeded with
\* add_all_neighbors and none with calc_neighbors, otherwise every node is
\* seeded with calc_neighbors; each node is seeded exactly once, at the clock at
\* the start of the run, before the first slice.
C20_SeedingAllOrNothing == [][SeedsAllOrNothing]_vars

\* a run begun with a node that has no plan among nodes that have one: that
\* node too was seeded with add_all_neighbors
C20_Witness ==
    /\ pc = "loop"
    /\ trace = <<>>
    /\ netplan[NumNodes] = NOPLAN
    /\ netplan[1] # NOPLAN
    /\ nbcalls[Len(nbcalls)] = [node |-> NumNodes, call |-> "add_all_neighbors", t |-> now]

\* a step leaves the records of the log in place and may append to them
Appends == Len(log') >= Len(log) /\ SubSeq(log', 1, Len(log)) = log

\* the log is opened by setup() while it is empty, records are appended while
\* it is open, and it is closed by the end of run(), with the derivation of
\* the report and after the last task step; a closed log changes no more
LogLifecycle ==
    /\ Appends
    /\ log' # log => (logstate = "open" /\ logstate' = "open")
    /\ logstate' # logstate =>
          \/ /\ logstate = "closed" /\ logstate' = "open"
             /\ pc = "constructed" /\ pc' \in {"ready", "raised"}
             /\ log = <<>>
          \/ /\ logstate = "open" /\ logstate' = "shut"
             /\ pc = "loop" /\ pc' = "done"
             /\ trace' = trace
             /\ routing_stats' = derive(routing_stats)
             /\ log' = log
    /\ logstate = "shut" => (logstate' = "shut" /\ log' = log /\ trace' = trace)

\* where the log stands at each point of setup() and run()
LogStateByPhase ==
    /\ config.event_logging =>
          /\ pc = "constructed" => (logstate = "closed" /\ log = <<>>)
          /\ pc \in {"ready", "loop", "run"} => logstate = "open"
          /\ pc = "done" => logstate = "shut"
    /\ ~config.event_logging => (logstate = "closed" /\ log = <<>>)

\* C21: with event_logging enabled the log of one simulation goes through
\* open, append*, close: setup() opens it once before any record, every CONFIG
\* and LINK record is appended while it is open, and run() closes it once,
\* after the last task step and with the derivation of the report; no record
\* is appended after the close.
C21_LogLifecycle ==
    /\ []LogStateByPhase
    /\ [][LogLifecycle]_vars

\* a completed run whose closed log holds a CONFIG record and, after it, the two
\* LINK records of a contact
C21_Witness ==
    /\ pc = "done"
    /\ logstate = "shut"
    /\ trace # <<>>
    /\ \E i, j, k \in DOMAIN log :
          /\ i < j /\ j < k
          /\ log[i].cat = "CONFIG"
          /\ log[j].cat = "LINK" /\ log[j].event.event = "UP"
          /\ log[k].cat = "LINK" /\ log[k].event.event = "DOWN"

\* run() has been called a second time: the raw sums are gone and the call
\* has not returned
SecondRun == "hops" \notin DOMAIN routing_stats /\ pc # "done"

\* the second call starts from the completed run and leaves the clock, the
\* report and the log as they are; it takes no slice and ends by raising,
\* with the report of the first run unchanged and the log as it was
SecondRunFails ==
    /\ (pc = "done" /\ pc' # "done") =>
          /\ pc' = "loop"
          /\ now' = now /\ trace' = trace
          /\ routing_stats' = routing_stats
          /\ log' = log /\ logstate' = logstate
    /\ SecondRun =>
          /\ pc = "loop" /\ pc' = "failed"
          /\ now' = now /\ trace' = trace
          /\ routing_stats' = routing_stats
          /\ log' = log /\ logstate' = logstate

\* C22: after one completed run() a second run() on the same instance takes no
\* slice, so the clock stays at duration + 1, and raises at the derivation of
\* the report, whose raw sums hops and latency the first run has removed: it
\* leaves the report of the first run, does not return and does not reach
\* the close of the log.
C22_RunIsSingleShot ==
    /\ [](SecondRun =>
            /\ now = Sec(duration + 1)
            /\ pc \in {"loop", "failed"}
            /\ DOMAIN routing_stats \cap {"hops", "latency"} = {})
    /\ [][SecondRunFails]_vars

\* a second run() that has raised after a first run that delivered bundles
C22_Witness ==
    /\ pc = "failed"
    /\ routing_stats.delivered > 0
    /\ now = Sec(duration + 1)
    /\ \E e \in queue : e.tid # STOP /\ e.time = Sec(duration + 1)

====
